---- MODULE Spec2Model ----
(***************************************************************************)
(* Model of the migra migration ledger (src/migra.go): the bookkeeping     *)
(* table, the Push / Pop transactions and the PushMany / PopAll / PopUntil *)
(* loops built on them.  The SQL layer is modelled by what the statements  *)
(* of migra.go do to a PostgreSQL database: a table of rows with a SERIAL  *)
(* position, a schema that the Up / Down statements change, transactions   *)
(* that commit or roll back as a whole, and a sequence whose values are    *)
(* never handed back.                                                      *)
(***************************************************************************)
EXTENDS Integers, Sequences, FiniteSets, TLC

\* ------------------------------------------------------------------ bounds
\* Highest value the position sequence may reach in a run.
MaxPos == 3
\* Longest slice handed to PushMany.
MaxMany == 2

\* ------------------------------------------------------------- error values
Nil == "nil"
ErrNoMigration == "no migration found"
ErrNoRows == "sql: no rows in result set"
ErrNameRequired == "migration name is required"
ErrUpRequired == "up sql is required"
DbErr == "database error"

\* ----------------------------------------------------------- SQL statements
\* The statements a migration carries.  An Up statement creates one schema
\* object, the matching Down statement drops it, "" is the empty statement.
UpStmts == {"CREATE x", "CREATE y", "CREATE z"}
DownStmts == {"DROP x", "DROP y", "DROP z"}

Creates(stmt) ==
  CASE stmt = "CREATE x" -> "x"
    [] stmt = "CREATE y" -> "y"
    [] stmt = "CREATE z" -> "z"

Drops(stmt) ==
  CASE stmt = "DROP x" -> "x"
    [] stmt = "DROP y" -> "y"
    [] stmt = "DROP z" -> "z"

\* Mutant of ExecStatement: a DROP of an object that is not there succeeds
\* (DROP ... IF EXISTS).
ExecStatementIfExists(sch, stmt) ==
  IF stmt = "" THEN [ok |-> TRUE, schema |-> sch]
  ELSE IF stmt \in UpStmts
       THEN IF Creates(stmt) \in sch
            THEN [ok |-> FALSE, schema |-> sch]
            ELSE [ok |-> TRUE, schema |-> sch \cup {Creates(stmt)}]
       ELSE [ok |-> TRUE, schema |-> sch \ {Drops(stmt)}]

\* tx.ExecContext(ctx, stmt) of a migration statement against the schema:
\* the empty statement succeeds and changes nothing, CREATE fails when the
\* object exists, DROP fails when it does not.
ExecStatement(sch, stmt) ==
  IF stmt = "" THEN [ok |-> TRUE, schema |-> sch]
  ELSE IF stmt \in UpStmts
       THEN IF Creates(stmt) \in sch
            THEN [ok |-> FALSE, schema |-> sch]
            ELSE [ok |-> TRUE, schema |-> sch \cup {Creates(stmt)}]
       ELSE IF Drops(stmt) \in sch
            THEN [ok |-> TRUE, schema |-> sch \ {Drops(stmt)}]
            ELSE [ok |-> FALSE, schema |-> sch]

\* --------------------------------------------------------------- migrations
Mig(n, u, d) == [Name |-> n, Description |-> "", Up |-> u, Down |-> d]

\* The Migration values handed to Push: three reversible migrations, one
\* without a Down statement (the CLI's default for --down), one that reuses
\* a name with another Up, one that reuses an Up under another name, and the
\* two that fail validation.
Migrations ==
  { Mig("a", "CREATE x", "DROP x"),
    Mig("b", "CREATE y", "DROP y"),
    Mig("c", "CREATE z", "DROP z"),
    Mig("b", "CREATE y", ""),
    Mig("a", "CREATE z", "DROP z"),
    Mig("", "CREATE x", "DROP x"),
    Mig("c", "", "") }

\* The slices handed to PushMany: up to MaxMany of two valid migrations and
\* one that fails validation.
ManyMigrations ==
  { Mig("a", "CREATE x", "DROP x"),
    Mig("b", "CREATE y", "DROP y"),
    Mig("c", "", "") }

MigrationSeqs == UNION { [1..k -> ManyMigrations] : k \in 0..MaxMany }

\* Names PopUntil is called with: the names in use and one never pushed.
TargetNames == {"a", "b", "none"}

\* ---------------------------------------------------------- injected faults
\* Where the database fails during one call, besides the failures that follow
\* from the data.  q: the existence query of Push fails; f: the step of the
\* transaction that fails.  One fault per call.
PushSteps == {"none", "begin", "insert", "up", "mark", "commit"}
PushFaults == [q : {FALSE}, f : PushSteps] \cup [q : {TRUE}, f : {"none"}]
PopSteps == {"none", "begin", "select", "down", "delete", "commit"}
PopFaults == [f : PopSteps]
\* The faults tried inside a PushMany.
ManyFaults == [q : {FALSE}, f : {"none", "up", "commit"}]
NoPushFault == [q |-> FALSE, f |-> "none"]
NoPopFault == [f |-> "none"]

\* ------------------------------------------------------------ cancellation
\* The context of a call is cancelled just before one of its steps; every
\* later step that takes the context fails.
PushCancelPoints == {"select", "begin", "insert", "up", "mark", "commit"}
PopCancelPoints == {"begin", "select", "down", "delete", "commit"}

\* What a cancellation before step at does to a Push.  Every step of Push
\* takes ctx, and the Commit of a transaction begun with BeginTx(ctx, nil)
\* fails once ctx is done; the failure of the existence query is dropped, so
\* the first error then comes from BeginTx.
PushCancelledAt(at) ==
  IF at = "select" THEN [q |-> TRUE, f |-> "begin"] ELSE [q |-> FALSE, f |-> at]

\* What a cancellation before step at does to a Pop.  The transaction is
\* begun with m.db.Begin(), which takes no context: Begin succeeds after a
\* cancellation and the query that follows fails; Commit succeeds too.
PopCancelledAt(at) ==
  IF at = "begin" THEN [f |-> "select"]
  ELSE IF at = "commit" THEN [f |-> "none"]
  ELSE [f |-> at]

\* The kind of log entry a step leaves.
StepKind(at) == IF at \in {"up", "down"} THEN "exec" ELSE at

\* ------------------------------------------------------------------- state
VARIABLES
  tableExists,  \* the migration table has been created and not dropped
  ledger,       \* the committed rows of the migration table
  posSeq,       \* last value handed out by the position sequence
  schema,       \* schema objects in effect in the database
  last,         \* the call that produced this state and what it returned
  maxAssigned,  \* history: the greatest position a committed row has held
  orphans,      \* history: objects left by popping a row with empty Down
  beforePush,   \* history: rows and schema before the latest Push of a new
                \* name, kept while that Push or the Pop after it is the last call
  pushOrder,    \* history: the names of the rows present, in the order in
                \* which their Pushes committed
  callers,      \* the Push each concurrent caller is running and the statement
                \* it is at; all idle when one caller works alone
  loop          \* the PopAll or PopUntil that is between two iterations, when
                \* the loops are followed iteration by iteration; idle otherwise

vars == <<tableExists, ledger, posSeq, schema, last, maxAssigned, orphans, beforePush,
          pushOrder, callers, loop>>

\* No PopAll or PopUntil is running.
IdleLoop == [pc |-> "idle", name |-> "", n |-> 0, reverted |-> <<>>]

\* The goroutines that call Push, or Pop, at the same time.
Callers == {1, 2}

\* A caller that is running no call.  A Pop keeps in m and position the row
\* its SELECT returned, in ranDown whether its Down statement succeeded and in
\* deleted the number of rows its DELETE matched.
IdleCaller ==
  [pc |-> "idle", m |-> Mig("", "", ""), position |-> 0, err |-> Nil,
   committed |-> FALSE, ranDown |-> FALSE, deleted |-> 0]

NoSnapshot == [set |-> FALSE, rows |-> {}, schema |-> {}, down |-> ""]

DB == [exists |-> tableExists, rows |-> ledger, seq |-> posSeq, schema |-> schema]

RowNames(rows) == { r.name : r \in rows }
RowChanges(rows) == { Creates(r.up) : r \in rows }
Positions(rows) == { r.position : r \in rows }
Max(S) == CHOOSE x \in S : \A y \in S : y <= x

\* Entries of the statement log: a statement the call issued and its outcome.
Ok(stmt) == <<stmt[1], stmt[2], "ok">>
Failed(stmt) == <<stmt[1], stmt[2], "failed">>

\* A handler's return: the committed database, the error, the count (PopAll),
\* the statements issued by the last Push, Pop or Latest it ran, and the names
\* it reverted, in order.
Ret(db, err, log) == [db |-> db, err |-> err, n |-> 0, log |-> log, reverted |-> <<>>]

\* Mutant of Rollback: the writes of a failed transaction stay.
RollbackKeepsWrites(db, txdb) == txdb

\* tx.Rollback(): the transaction's writes are discarded; the values drawn
\* from the position sequence are not handed back.
Rollback(db, txdb) == [db EXCEPT !.seq = txdb.seq]

\* --------------------------------------------------------------------- Push
\* Mutant of ScanName: the existence query never finds the row.
ScanNameFindsNothing(db, name, qfails) == ""

\* SELECT name FROM <table> WHERE name = $1 followed by row.Scan(&name), whose
\* error is dropped: when the query fails or finds no row, name stays "".
ScanName(db, name, qfails) ==
  IF qfails \/ ~db.exists THEN ""
  ELSE IF name \in RowNames(db.rows) THEN name ELSE ""

\* Mutant of NextPosition: one more than the greatest position present.
NextPositionFromRows(db) ==
  IF db.rows = {} THEN 1 ELSE Max(Positions(db.rows)) + 1

\* The value the SERIAL column position takes in a new row: nextval of the
\* table's sequence.
NextPosition(db) == db.seq + 1

\* INSERT INTO <table> (name, description, up, down) VALUES (...): fails when
\* the table is absent; draws a position and then fails when the name is
\* taken (name is UNIQUE); else adds the row with migrated_at NULL.
InsertRow(db, m) ==
  IF ~db.exists THEN [ok |-> FALSE, db |-> db]
  ELSE IF m.Name \in RowNames(db.rows)
       THEN [ok |-> FALSE, db |-> [db EXCEPT !.seq = NextPosition(db)]]
       ELSE [ok |-> TRUE,
             db |-> [db EXCEPT
                       !.seq = NextPosition(db),
                       !.rows = @ \cup {[name |-> m.Name,
                                         description |-> m.Description,
                                         up |-> m.Up,
                                         down |-> m.Down,
                                         position |-> NextPosition(db),
                                         migrated_at |-> FALSE]}]]

\* Mutant of MarkMigrated: the UPDATE matches no row.
MarkMigratedNoRow(db, name) == db

\* UPDATE <table> SET migrated_at = NOW() WHERE name = $1
MarkMigrated(db, name) ==
  [db EXCEPT !.rows = { IF r.name = name THEN [r EXCEPT !.migrated_at = TRUE] ELSE r
                        : r \in @ }]

\* Mutant of PushTx: the Up statement is executed before the INSERT.
PushTxUpFirst(db, m, f, log) ==
  LET ex  == ExecStatement(db.schema, m.Up)
      upd == [db EXCEPT !.schema = ex.schema]
      ins == InsertRow(upd, m)
      mrk == MarkMigrated(ins.db, m.Name)
      i1  == <<"insert", m.Name>>
      i2  == <<"exec", m.Up>>
      i3  == <<"mark", m.Name>>
      i4  == <<"commit", "">>
      l1  == Append(log, Ok(i2))
      l2  == Append(l1, Ok(i1))
      l3  == Append(l2, Ok(i3))
  IN IF f = "up" \/ ~ex.ok
     THEN Ret(Rollback(db, db), DbErr, Append(log, Failed(i2)))
     ELSE IF f = "insert" \/ ~ins.ok
     THEN Ret(Rollback(db, IF f = "insert" THEN upd ELSE ins.db), DbErr,
              Append(l1, Failed(i1)))
     ELSE IF f = "mark"
     THEN Ret(Rollback(db, ins.db), DbErr, Append(l2, Failed(i3)))
     ELSE IF f = "commit"
     THEN Ret(Rollback(db, mrk), DbErr, Append(l3, Failed(i4)))
     ELSE Ret(mrk, Nil, Append(l3, Ok(i4)))

\* The transaction of Push, from the INSERT to the Commit; f is the step at
\* which the database fails.  Every error return runs the deferred Rollback.
PushTx(db, m, f, log) ==
  LET ins == InsertRow(db, m)
      i1  == <<"insert", m.Name>>
      i2  == <<"exec", m.Up>>
      i3  == <<"mark", m.Name>>
      i4  == <<"commit", "">>
      l1  == Append(log, Ok(i1))
      l2  == Append(l1, Ok(i2))
      l3  == Append(l2, Ok(i3))
  IN IF f = "insert" \/ ~ins.ok
     THEN Ret(Rollback(db, IF f = "insert" THEN db ELSE ins.db), DbErr,
              Append(log, Failed(i1)))
     ELSE LET ex  == ExecStatement(ins.db.schema, m.Up)
              upd == [ins.db EXCEPT !.schema = ex.schema]
              mrk == MarkMigrated(upd, m.Name)
          IN IF f = "up" \/ ~ex.ok
             THEN Ret(Rollback(db, ins.db), DbErr, Append(l1, Failed(i2)))
             ELSE IF f = "mark"
             THEN Ret(Rollback(db, upd), DbErr, Append(l2, Failed(i3)))
             ELSE IF f = "commit"
             THEN Ret(Rollback(db, mrk), DbErr, Append(l3, Failed(i4)))
             ELSE Ret(mrk, Nil, Append(l3, Ok(i4)))

\* Mutant of PushRun: a Push of a name the ledger holds replaces the stored
\* description, Up and Down by the new ones.
PushRunUpserts(db, m, o) ==
  IF m.Name = "" THEN Ret(db, ErrNameRequired, <<>>)
  ELSE IF m.Up = "" THEN Ret(db, ErrUpRequired, <<>>)
  ELSE LET sel == <<"select", m.Name>>
           l0  == << IF o.q \/ ~db.exists THEN Failed(sel) ELSE Ok(sel) >>
           beg == <<"begin", "">>
       IN IF ScanName(db, m.Name, o.q) = m.Name
          THEN Ret([db EXCEPT !.rows =
                      { IF r.name = m.Name
                        THEN [r EXCEPT !.description = m.Description,
                                       !.up = m.Up, !.down = m.Down]
                        ELSE r : r \in @ }],
                   Nil, l0)
          ELSE IF o.f = "begin"
               THEN Ret(db, DbErr, Append(l0, Failed(beg)))
               ELSE PushTx(db, m, o.f, Append(l0, Ok(beg)))

\* Mutant of PushRun: the migration is validated after the existence query.
PushRunValidatesLate(db, m, o) ==
  LET sel == <<"select", m.Name>>
      l0  == << IF o.q \/ ~db.exists THEN Failed(sel) ELSE Ok(sel) >>
      beg == <<"begin", "">>
  IN IF m.Name = "" THEN Ret(db, ErrNameRequired, l0)
     ELSE IF m.Up = "" THEN Ret(db, ErrUpRequired, l0)
     ELSE IF ScanName(db, m.Name, o.q) = m.Name
          THEN Ret(db, Nil, l0)
          ELSE IF o.f = "begin"
               THEN Ret(db, DbErr, Append(l0, Failed(beg)))
               ELSE PushTx(db, m, o.f, Append(l0, Ok(beg)))

\* Migra.Push
PushRun(db, m, o) ==
  IF m.Name = "" THEN Ret(db, ErrNameRequired, <<>>)
  ELSE IF m.Up = "" THEN Ret(db, ErrUpRequired, <<>>)
  ELSE LET sel == <<"select", m.Name>>
           l0  == << IF o.q \/ ~db.exists THEN Failed(sel) ELSE Ok(sel) >>
           beg == <<"begin", "">>
       IN IF ScanName(db, m.Name, o.q) = m.Name
          THEN Ret(db, Nil, l0)
          ELSE IF o.f = "begin"
               THEN Ret(db, DbErr, Append(l0, Failed(beg)))
               ELSE PushTx(db, m, o.f, Append(l0, Ok(beg)))

\* Mutant of PushManyLoop: the loop goes on after a failed Push and returns
\* the first error at the end.
RECURSIVE PushManyLoopContinues(_, _, _, _, _)
PushManyLoopContinues(db, ms, i, o, log) ==
  IF i > Len(ms) THEN [Ret(db, Nil, log) EXCEPT !.n = Len(ms)]
  ELSE LET p    == PushRun(db, ms[i], IF o.at = i THEN o.fault ELSE NoPushFault)
           rest == PushManyLoopContinues(p.db, ms, i + 1, o, p.log)
       IN IF p.err # Nil
          THEN [rest EXCEPT !.err = p.err, !.n = i - 1, !.log = p.log]
          ELSE rest

\* Migra.PushMany: Push in slice order, return at the first error.  The fault
\* o.fault strikes the Push of index o.at.  The count n is the number of
\* Pushes that returned nil before the loop ended.
RECURSIVE PushManyLoop(_, _, _, _, _)
PushManyLoop(db, ms, i, o, log) ==
  IF i > Len(ms) THEN [Ret(db, Nil, log) EXCEPT !.n = Len(ms)]
  ELSE LET p == PushRun(db, ms[i], IF o.at = i THEN o.fault ELSE NoPushFault)
       IN IF p.err # Nil
          THEN [Ret(p.db, p.err, p.log) EXCEPT !.n = i - 1]
          ELSE PushManyLoop(p.db, ms, i + 1, o, p.log)

PushManyRun(db, ms, o) == PushManyLoop(db, ms, 1, o, <<>>)

\* ---------------------------------------------------------------------- Pop
\* Mutant of SelectLatest: ORDER BY position ASC.
SelectOldest(rows) == CHOOSE r \in rows : \A s \in rows : r.position <= s.position

\* SELECT ... ORDER BY position DESC read through QueryRow: the first row of
\* the result, which is the row with the greatest position.
SelectLatest(rows) == CHOOSE r \in rows : \A s \in rows : s.position <= r.position

\* Mutant of DeleteByName: the DELETE matches no row.
DeleteNoRow(db, name) == db

\* Mutant of DeleteByName: the DELETE has no WHERE.
DeleteEveryRow(db, name) == [db EXCEPT !.rows = {}]

\* DELETE FROM <table> WHERE name = $1
DeleteByName(db, name) == [db EXCEPT !.rows = { r \in @ : r.name # name }]

\* Mutant of PopScan: a missing table is read as a table without rows.
PopScanAbsentIsEmpty(db, fails) ==
  IF fails THEN [err |-> DbErr, rows |-> {}]
  ELSE IF ~db.exists \/ db.rows = {} THEN [err |-> ErrNoMigration, rows |-> {}]
  ELSE [err |-> Nil, rows |-> {SelectLatest(db.rows)}]

\* Mutant of PopScan: sql.ErrNoRows is returned as it is.
PopScanKeepsNoRows(db, fails) ==
  IF fails \/ ~db.exists THEN [err |-> DbErr, rows |-> {}]
  ELSE IF db.rows = {} THEN [err |-> ErrNoRows, rows |-> {}]
  ELSE [err |-> Nil, rows |-> {SelectLatest(db.rows)}]

\* The fetch of Pop: the SELECT of the latest row and its Scan; sql.ErrNoRows
\* is turned into ErrNoMigration, any other error is returned as it is.
PopScan(db, fails) ==
  IF fails \/ ~db.exists THEN [err |-> DbErr, rows |-> {}]
  ELSE IF db.rows = {} THEN [err |-> ErrNoMigration, rows |-> {}]
  ELSE [err |-> Nil, rows |-> {SelectLatest(db.rows)}]

\* Mutant of PopRun: the row is deleted without executing its Down.
PopRunSkipsDown(db, o) ==
  LET beg == <<"begin", "">>
      sel == <<"select", "">>
      l0  == <<Ok(beg)>>
      l1  == Append(l0, Ok(sel))
      scn == PopScan(db, o.f = "select")
  IN IF o.f = "begin" THEN Ret(db, DbErr, <<Failed(beg)>>)
     ELSE IF scn.err = DbErr THEN Ret(Rollback(db, db), DbErr, Append(l0, Failed(sel)))
     ELSE IF scn.err # Nil THEN Ret(Rollback(db, db), scn.err, l1)
     ELSE LET row == CHOOSE r \in scn.rows : TRUE
              del == DeleteByName(db, row.name)
              i3  == <<"delete", row.name>>
              i4  == <<"commit", "">>
              l3  == Append(l1, Ok(i3))
          IN IF o.f = "delete"
             THEN Ret(Rollback(db, db), DbErr, Append(l1, Failed(i3)))
             ELSE IF o.f = "commit"
             THEN Ret(Rollback(db, del), DbErr, Append(l3, Failed(i4)))
             ELSE [db |-> del, err |-> Nil, n |-> 0, log |-> Append(l3, Ok(i4)),
                   reverted |-> <<row.name>>]

\* Migra.Pop; o.f is the step at which the database fails.
PopRun(db, o) ==
  LET beg == <<"begin", "">>
      sel == <<"select", "">>
      l0  == <<Ok(beg)>>
      l1  == Append(l0, Ok(sel))
      scn == PopScan(db, o.f = "select")
  IN IF o.f = "begin" THEN Ret(db, DbErr, <<Failed(beg)>>)
     ELSE IF scn.err = DbErr THEN Ret(Rollback(db, db), DbErr, Append(l0, Failed(sel)))
     ELSE IF scn.err # Nil THEN Ret(Rollback(db, db), scn.err, l1)
     ELSE LET row == CHOOSE r \in scn.rows : TRUE
              ex  == ExecStatement(db.schema, row.down)
              dwn == [db EXCEPT !.schema = ex.schema]
              del == DeleteByName(dwn, row.name)
              i2  == <<"exec", row.down>>
              i3  == <<"delete", row.name>>
              i4  == <<"commit", "">>
              l2  == Append(l1, Ok(i2))
              l3  == Append(l2, Ok(i3))
          IN IF o.f = "down" \/ ~ex.ok
             THEN Ret(Rollback(db, db), DbErr, Append(l1, Failed(i2)))
             ELSE IF o.f = "delete"
             THEN Ret(Rollback(db, dwn), DbErr, Append(l2, Failed(i3)))
             ELSE IF o.f = "commit"
             THEN Ret(Rollback(db, del), DbErr, Append(l3, Failed(i4)))
             ELSE [db |-> del, err |-> Nil, n |-> 0, log |-> Append(l3, Ok(i4)),
                   reverted |-> <<row.name>>]

\* Mutant of PopAllExhausted: an exhausted ledger is never an error.
PopAllExhaustedIsNil(n) == Nil

\* What PopAll returns when a Pop meets ErrNoMigration after n Pops: the
\* error itself when nothing was popped, nil with the count otherwise.
PopAllExhausted(n) == IF n = 0 THEN ErrNoMigration ELSE Nil

\* Mutant of PopAllLoop: a failed Pop is returned with the count 0.
RECURSIVE PopAllLoopDropsCount(_, _, _, _)
PopAllLoopDropsCount(db, n, o, reverted) ==
  LET p == PopRun(db, IF o.at = n + 1 THEN [f |-> o.f] ELSE NoPopFault)
  IN IF p.err # Nil
     THEN IF p.err = ErrNoMigration
          THEN [db |-> p.db, err |-> PopAllExhausted(n), n |-> n, log |-> p.log,
                reverted |-> reverted]
          ELSE [db |-> p.db, err |-> p.err, n |-> 0, log |-> p.log,
                reverted |-> reverted]
     ELSE PopAllLoopDropsCount(p.db, n + 1, o, reverted \o p.reverted)

\* Mutant of PopAllLoop: one Pop, no loop.
PopAllLoopOnce(db, n, o, reverted) ==
  LET p == PopRun(db, IF o.at = n + 1 THEN [f |-> o.f] ELSE NoPopFault)
  IN [db |-> p.db, err |-> p.err, n |-> IF p.err = Nil THEN 1 ELSE 0,
      log |-> p.log, reverted |-> p.reverted]

\* Migra.PopAll: Pop until it fails; ErrNoMigration ends the loop with the
\* count, as an error only when nothing was popped.  The fault o.f strikes
\* the Pop of iteration o.at.
RECURSIVE PopAllLoop(_, _, _, _)
PopAllLoop(db, n, o, reverted) ==
  LET p == PopRun(db, IF o.at = n + 1 THEN [f |-> o.f] ELSE NoPopFault)
  IN IF p.err # Nil
     THEN IF p.err = ErrNoMigration
          THEN [db |-> p.db, err |-> PopAllExhausted(n), n |-> n, log |-> p.log,
                reverted |-> reverted]
          ELSE [db |-> p.db, err |-> p.err, n |-> n, log |-> p.log,
                reverted |-> reverted]
     ELSE PopAllLoop(p.db, n + 1, o, reverted \o p.reverted)

PopAllRun(db, o) == PopAllLoop(db, 0, o, <<>>)

\* Mutant of LatestRun: ORDER BY position ASC.
LatestRunOldest(db, fails) ==
  IF fails \/ ~db.exists THEN [err |-> DbErr, name |-> ""]
  ELSE IF db.rows = {} THEN [err |-> ErrNoRows, name |-> ""]
  ELSE [err |-> Nil, name |-> SelectOldest(db.rows).name]

\* Migra.Latest: the QueryRow of the greatest position and its Scan, whose
\* error is returned as it is.
LatestRun(db, fails) ==
  IF fails \/ ~db.exists THEN [err |-> DbErr, name |-> ""]
  ELSE IF db.rows = {} THEN [err |-> ErrNoRows, name |-> ""]
  ELSE [err |-> Nil, name |-> SelectLatest(db.rows).name]

\* Mutant of PopUntilLoop: a name no row has is an error before any Pop.
RECURSIVE PopUntilLoopKnownOnly(_, _, _, _, _)
PopUntilLoopKnownOnly(db, name, i, o, reverted) ==
  LET lat == LatestRun(db, o.at = i /\ o.f = "latest")
      i0  == <<"latest", "">>
  IN IF lat.err # Nil
     THEN [db |-> db, err |-> lat.err, n |-> 0,
           log |-> << IF lat.err = DbErr THEN Failed(i0) ELSE Ok(i0) >>,
           reverted |-> reverted]
     ELSE IF name \notin RowNames(db.rows)
     THEN [db |-> db, err |-> ErrNoMigration, n |-> 0, log |-> <<Ok(i0)>>,
           reverted |-> reverted]
     ELSE IF lat.name = name
     THEN [db |-> db, err |-> Nil, n |-> 0, log |-> <<Ok(i0)>>,
           reverted |-> reverted]
     ELSE LET p == PopRun(db, IF o.at = i /\ o.f # "latest"
                              THEN [f |-> o.f] ELSE NoPopFault)
          IN IF p.err # Nil
             THEN [db |-> p.db, err |-> p.err, n |-> 0, log |-> <<Ok(i0)>> \o p.log,
                   reverted |-> reverted]
             ELSE PopUntilLoopKnownOnly(p.db, name, i + 1, o, reverted \o p.reverted)

\* Migra.PopUntil: while the latest row is not the named one, Pop.  The fault
\* o.f strikes iteration o.at: "latest" its Latest, the others its Pop.
RECURSIVE PopUntilLoop(_, _, _, _, _)
PopUntilLoop(db, name, i, o, reverted) ==
  LET lat == LatestRun(db, o.at = i /\ o.f = "latest")
      i0  == <<"latest", "">>
  IN IF lat.err # Nil
     THEN [db |-> db, err |-> lat.err, n |-> 0,
           log |-> << IF lat.err = DbErr THEN Failed(i0) ELSE Ok(i0) >>,
           reverted |-> reverted]
     ELSE IF lat.name = name
     THEN [db |-> db, err |-> Nil, n |-> 0, log |-> <<Ok(i0)>>,
           reverted |-> reverted]
     ELSE LET p == PopRun(db, IF o.at = i /\ o.f # "latest"
                              THEN [f |-> o.f] ELSE NoPopFault)
          IN IF p.err # Nil
             THEN [db |-> p.db, err |-> p.err, n |-> 0, log |-> <<Ok(i0)>> \o p.log,
                   reverted |-> reverted]
             ELSE PopUntilLoop(p.db, name, i + 1, o, reverted \o p.reverted)

PopUntilRun(db, name, o) == PopUntilLoop(db, name, 1, o, <<>>)

\* Mutant of LatestCall: the latest row is fetched by popping it.
LatestCallPops(db, fails) ==
  LET p == PopRun(db, [f |-> IF fails THEN "select" ELSE "none"])
  IN [db |-> p.db, err |-> p.err, n |-> 0, log |-> p.log, reverted |-> <<>>,
      out |-> p.reverted]

\* A call of Migra.Latest: what it returns, the row as a sequence of one name.
LatestCall(db, fails) ==
  LET lat == LatestRun(db, fails)
      i0  == <<"latest", "">>
  IN [db |-> db, err |-> lat.err, n |-> 0,
      log |-> << IF lat.err = DbErr THEN Failed(i0) ELSE Ok(i0) >>,
      reverted |-> <<>>,
      out |-> IF lat.err = Nil THEN <<lat.name>> ELSE <<>>]

\* Mutant of OrderByPosition: ORDER BY position DESC.
OrderByPositionDesc(rows) ==
  [ i \in 1..Cardinality(rows) |->
      CHOOSE r \in rows : Cardinality({ s \in rows : s.position > r.position }) = i - 1 ]

\* SELECT ... ORDER BY position ASC: the rows as a sequence, the i-th with
\* i - 1 rows positioned below it.
OrderByPosition(rows) ==
  [ i \in 1..Cardinality(rows) |->
      CHOOSE r \in rows : Cardinality({ s \in rows : s.position < r.position }) = i - 1 ]

\* Where a List fails: its query, the Scan of row o.at, or the iteration
\* before row o.at (rows.Next returns false on an error).
ListSteps == {"none", "query", "scan", "next"}

\* Migra.List: the rows in ascending position order, as a sequence of names.
\* A failed query returns the error; a failed Scan returns the rows read so
\* far and the error; an iteration that ends on an error returns the rows
\* read so far and nil, because rows.Err() is not consulted.
ListRun(db, o) ==
  LET q0    == <<"query", "">>
      all   == OrderByPosition(db.rows)
      names == [ i \in 1..Len(all) |-> all[i].name ]
      read  == SubSeq(names, 1, o.at - 1)
      res(err, log, out) ==
        [db |-> db, err |-> err, n |-> 0, log |-> log, reverted |-> <<>>, out |-> out]
  IN IF o.f = "query" \/ ~db.exists THEN res(DbErr, <<Failed(q0)>>, <<>>)
     ELSE IF o.f = "scan"
     THEN res(DbErr, <<Ok(q0), Failed(<<"scan", names[o.at]>>)>>, read)
     ELSE IF o.f = "next"
     THEN res(Nil, <<Ok(q0), Failed(<<"next", "">>)>>, read)
     ELSE res(Nil, <<Ok(q0)>>, names)

\* ------------------------------------------------------------- table set-up
\* Mutant of CreateRun: the table is created anew on every call.
CreateRunRecreates(db, fails) ==
  IF fails THEN Ret(db, DbErr, <<Failed(<<"create", "">>)>>)
  ELSE Ret([db EXCEPT !.exists = TRUE, !.rows = {}, !.seq = 0], Nil,
           <<Ok(<<"create", "">>)>>)

\* Migra.CreateMigrationTable: CREATE SCHEMA / CREATE TABLE IF NOT EXISTS; a
\* new table starts empty with a fresh position sequence.
CreateRun(db, fails) ==
  IF fails THEN Ret(db, DbErr, <<Failed(<<"create", "">>)>>)
  ELSE IF db.exists THEN Ret(db, Nil, <<Ok(<<"create", "">>)>>)
  ELSE Ret([db EXCEPT !.exists = TRUE, !.rows = {}, !.seq = 0], Nil,
           <<Ok(<<"create", "">>)>>)

\* Mutant of DropRun: the Down of every row is executed before the table goes.
DropRunReverts(db, fails) ==
  IF fails \/ ~db.exists THEN Ret(db, DbErr, <<Failed(<<"drop", "">>)>>)
  ELSE Ret([db EXCEPT !.exists = FALSE, !.rows = {}, !.seq = 0,
                      !.schema = @ \ { Drops(r.down) :
                                        r \in { q \in db.rows : q.down # "" } }],
           Nil, <<Ok(<<"drop", "">>)>>)

\* Mutant of DropRun: DROP TABLE IF EXISTS.
DropRunIfExists(db, fails) ==
  IF fails THEN Ret(db, DbErr, <<Failed(<<"drop", "">>)>>)
  ELSE Ret([db EXCEPT !.exists = FALSE, !.rows = {}, !.seq = 0], Nil,
           <<Ok(<<"drop", "">>)>>)

\* Migra.DropMigrationTable: DROP TABLE, an error when the table is absent.
DropRun(db, fails) ==
  IF fails \/ ~db.exists THEN Ret(db, DbErr, <<Failed(<<"drop", "">>)>>)
  ELSE Ret([db EXCEPT !.exists = FALSE, !.rows = {}, !.seq = 0], Nil,
           <<Ok(<<"drop", "">>)>>)

\* ----------------------------------------------------------------- actions
\* The state after a call: the database it committed, what it returned, and
\* the history of positions and of objects left behind.
Installed(r, op, migs, target, cancel) ==
  /\ tableExists' = r.db.exists
  /\ ledger' = r.db.rows
  /\ posSeq' = r.db.seq
  /\ schema' = r.db.schema
  /\ last' = [op |-> op, migs |-> migs, target |-> target, cancel |-> cancel,
              err |-> r.err, n |-> r.n, log |-> r.log, reverted |-> r.reverted,
              out |-> IF op \in {"Latest", "List"} THEN r.out ELSE <<>>]
  /\ maxAssigned' = IF r.db.exists
                    THEN Max({maxAssigned} \cup Positions(r.db.rows))
                    ELSE 0
  /\ orphans' = orphans \cup { Creates(row.up) :
                   row \in { s \in ledger : s \notin r.db.rows /\ s.down = ""
                                            /\ r.db.exists } }
  /\ beforePush' =
       IF op = "Push" /\ r.err = Nil /\ migs[1].Name \notin RowNames(ledger)
       THEN [set |-> TRUE, rows |-> ledger, schema |-> schema, down |-> migs[1].Down]
       ELSE IF op = "Pop" /\ r.err = Nil /\ last.op = "Push"
       THEN beforePush
       ELSE NoSnapshot
  /\ pushOrder' =
       LET Stays(name) == name \in RowNames(r.db.rows)
           IsNew(i) == /\ migs[i].Name \in RowNames(r.db.rows) \ RowNames(ledger)
                       /\ \A k \in 1..(i - 1) : migs[k].Name # migs[i].Name
           added[i \in 0..Len(migs)] ==
             IF i = 0 THEN <<>>
             ELSE IF IsNew(i) THEN Append(added[i - 1], migs[i].Name)
             ELSE added[i - 1]
       IN SelectSeq(pushOrder, Stays) \o added[Len(migs)]
  /\ callers' = callers

\* A call whose context is not cancelled.
Install(r, op, migs, target) ==
  /\ Installed(r, op, migs, target, "none")
  /\ loop' = loop

Init ==
  /\ tableExists = TRUE
  /\ ledger = {}
  /\ posSeq = 0
  /\ schema = {}
  /\ last = [op |-> "New", migs |-> <<>>, target |-> "", cancel |-> "none",
             err |-> Nil, n |-> 0, log |-> <<>>, reverted |-> <<>>, out |-> <<>>]
  /\ maxAssigned = 0
  /\ orphans = {}
  /\ beforePush = NoSnapshot
  /\ pushOrder = <<>>
  /\ callers = [c \in Callers |-> IdleCaller]
  /\ loop = IdleLoop

Push ==
  \E m \in Migrations, o \in PushFaults :
    /\ PushRun(DB, m, o).db.seq <= MaxPos
    /\ Install(PushRun(DB, m, o), "Push", <<m>>, "")

PushMany ==
  \E ms \in MigrationSeqs, at \in 1..MaxMany, o \in ManyFaults :
    /\ posSeq + Len(ms) <= MaxPos
    /\ IF o.f = "none" THEN at = 1 ELSE at <= Len(ms)
    /\ Install(PushManyRun(DB, ms, [at |-> at, fault |-> o]), "PushMany", ms, "")

Pop ==
  \E o \in PopFaults :
    /\ o.f \in PopSteps
    /\ Install(PopRun(DB, o), "Pop", <<>>, "")

PopAll ==
  \E at \in 1..(Cardinality(ledger) + 1), f \in PopSteps :
    /\ f = "none" => at = 1
    /\ Install(PopAllRun(DB, [at |-> at, f |-> f]), "PopAll", <<>>, "")

PopUntil ==
  \E name \in TargetNames, at \in 1..(Cardinality(ledger) + 1),
     f \in PopSteps \cup {"latest"} :
    /\ f = "none" => at = 1
    /\ Install(PopUntilRun(DB, name, [at |-> at, f |-> f]), "PopUntil", <<>>, name)

Latest ==
  \E fails \in BOOLEAN :
    /\ fails \in BOOLEAN
    /\ Install(LatestCall(DB, fails), "Latest", <<>>, "")

List ==
  \E f \in ListSteps, at \in 1..MaxPos :
    /\ IF f \in {"scan", "next"} THEN at <= Cardinality(ledger) ELSE at = 1
    /\ Install(ListRun(DB, [f |-> f, at |-> at]), "List", <<>>, "")

CreateMigrationTable ==
  \E fails \in BOOLEAN :
    /\ fails \in BOOLEAN
    /\ Install(CreateRun(DB, fails), "CreateMigrationTable", <<>>, "")

DropMigrationTable ==
  \E fails \in BOOLEAN :
    /\ fails \in BOOLEAN
    /\ Install(DropRun(DB, fails), "DropMigrationTable", <<>>, "")

\* One caller working on an initialized ledger.
Next == Push \/ PushMany \/ Pop \/ PopAll \/ PopUntil \/ Latest \/ List

Spec == Init /\ [][Next]_vars

\* The life of the migration table: a new Migra on a database where the table
\* has not been created, with CreateMigrationTable and DropMigrationTable
\* among the calls.
InitLifecycle ==
  /\ tableExists = FALSE
  /\ ledger = {}
  /\ posSeq = 0
  /\ schema = {}
  /\ last = [op |-> "New", migs |-> <<>>, target |-> "", cancel |-> "none",
             err |-> Nil, n |-> 0, log |-> <<>>, reverted |-> <<>>, out |-> <<>>]
  /\ maxAssigned = 0
  /\ orphans = {}
  /\ beforePush = NoSnapshot
  /\ pushOrder = <<>>
  /\ callers = [c \in Callers |-> IdleCaller]
  /\ loop = IdleLoop

NextLifecycle ==
  Push \/ Pop \/ PopAll \/ CreateMigrationTable \/ DropMigrationTable

SpecLifecycle == InitLifecycle /\ [][NextLifecycle]_vars

\* ------------------------------------------------------------ cancellation
\* A Push whose context is cancelled at a step the call reaches.
PushCancelled ==
  \E m \in Migrations, at \in PushCancelPoints :
    /\ PushRun(DB, m, PushCancelledAt(at)).db.seq <= MaxPos
    /\ \E i \in 1..Len(PushRun(DB, m, PushCancelledAt(at)).log) :
         PushRun(DB, m, PushCancelledAt(at)).log[i][1] = StepKind(at)
    /\ Installed(PushRun(DB, m, PushCancelledAt(at)), "Push", <<m>>, "", at)
    /\ loop' = loop

\* A Pop whose context is cancelled at a step the call reaches.
PopCancelled ==
  \E at \in PopCancelPoints :
    /\ \E i \in 1..Len(PopRun(DB, PopCancelledAt(at)).log) :
         PopRun(DB, PopCancelledAt(at)).log[i][1] = StepKind(at)
    /\ Installed(PopRun(DB, PopCancelledAt(at)), "Pop", <<>>, "", at)
    /\ loop' = loop

\* One caller whose calls may be cancelled.
NextCancel == Push \/ Pop \/ PushCancelled \/ PopCancelled

SpecCancel == Init /\ [][NextCancel]_vars

\* ------------------------------------------------- loops, by iteration
\* PopAll and PopUntil followed one iteration at a time.  An iteration that
\* goes on has run a Pop that returned nil; an iteration that returns ends
\* the call.  A failure of the database may strike any iteration.
LoopUnchanged ==
  UNCHANGED <<tableExists, ledger, posSeq, schema, last, maxAssigned, orphans,
              beforePush, pushOrder, callers>>

\* The failures tried in an iteration: none, the Down statement, the commit
\* of the Pop, and for PopUntil the query of Latest.
LoopFaults == {"none", "down", "commit"}

\* Entry into Migra.PopAll.
PopAllStart ==
  /\ loop.pc = "idle"
  /\ loop' = [IdleLoop EXCEPT !.pc = "PopAll"]
  /\ LoopUnchanged

\* Entry into Migra.PopUntil.
PopUntilStart ==
  \E name \in TargetNames :
    /\ loop.pc = "idle"
    /\ loop' = [IdleLoop EXCEPT !.pc = "PopUntil", !.name = name]
    /\ LoopUnchanged

\* The end of the running call: what it returns.
LoopReturns(db, err, log) ==
  /\ Installed([db |-> db, err |-> err, n |-> IF loop.pc = "PopAll" THEN loop.n ELSE 0,
                log |-> log, reverted |-> loop.reverted],
               loop.pc, <<>>, loop.name, "none")
  /\ loop' = IdleLoop

\* The Pop of an iteration returned nil: the loop goes on.
LoopGoesOn(p) ==
  /\ Installed(p, "Pop", <<>>, "", "none")
  /\ loop' = [loop EXCEPT !.n = @ + 1, !.reverted = @ \o p.reverted]

\* One iteration of the loop of Migra.PopAll.
PopAllStep ==
  \E f \in LoopFaults :
    /\ loop.pc = "PopAll"
    /\ LET p == PopRun(DB, [f |-> f])
       IN IF p.err # Nil
          THEN LoopReturns(p.db,
                           IF p.err = ErrNoMigration
                           THEN PopAllExhausted(loop.n) ELSE p.err,
                           p.log)
          ELSE LoopGoesOn(p)

\* One iteration of the loop of Migra.PopUntil.
PopUntilStep ==
  \E f \in LoopFaults \cup {"latest"} :
    /\ loop.pc = "PopUntil"
    /\ LET lat == LatestRun(DB, f = "latest")
           i0  == <<"latest", "">>
           p   == PopRun(DB, [f |-> f])
       IN IF lat.err # Nil
          THEN LoopReturns(DB, lat.err,
                           << IF lat.err = DbErr THEN Failed(i0) ELSE Ok(i0) >>)
          ELSE IF lat.name = loop.name
          THEN LoopReturns(DB, Nil, <<Ok(i0)>>)
          ELSE IF p.err # Nil
          THEN LoopReturns(p.db, p.err, <<Ok(i0)>> \o p.log)
          ELSE LoopGoesOn(p)

\* The migrations pushed to fill the ledger for the loops.
LoopMigrations ==
  { Mig("a", "CREATE x", "DROP x"),
    Mig("b", "CREATE y", "DROP y"),
    Mig("c", "CREATE z", "DROP z") }

\* A Push between two calls, on a healthy database, to fill the ledger.
LoopPush ==
  \E m \in LoopMigrations :
    /\ loop.pc = "idle"
    /\ PushRun(DB, m, NoPushFault).db.seq <= MaxPos
    /\ Install(PushRun(DB, m, NoPushFault), "Push", <<m>>, "")

NextLoop == LoopPush \/ PopAllStart \/ PopUntilStart \/ PopAllStep \/ PopUntilStep

\* The caller's goroutine keeps running the loop it has entered.
SpecLoop ==
  /\ Init
  /\ [][NextLoop]_vars
  /\ WF_vars(PopAllStep)
  /\ WF_vars(PopUntilStep)

\* ------------------------------------------------------- concurrent callers
\* Two callers, each running one Push, interleaved statement by statement on
\* a healthy database.  A transaction sees the committed rows and its own
\* writes (READ COMMITTED, the default of BeginTx(ctx, nil)); an INSERT of a
\* name, or a CREATE of an object, that another open transaction has written
\* waits until that transaction ends.
ConcMigrations ==
  { Mig("a", "CREATE x", "DROP x"),
    Mig("b", "CREATE y", "DROP y"),
    Mig("a", "CREATE z", "DROP z") }

\* The caller's transaction has inserted its row and not yet ended.
HoldsRow(c) == callers[c].pc \in {"up", "mark", "commit"}
\* The caller's transaction has executed its Up and not yet ended.
HoldsObject(c) == callers[c].pc \in {"mark", "commit"}

\* The shared variables a statement of a concurrent Push leaves alone.
ConcUnchanged == UNCHANGED <<tableExists, last, orphans, beforePush, loop>>

Returns(c, err) == [callers EXCEPT ![c].pc = "done", ![c].err = err]
Goes(c, pc) == [callers EXCEPT ![c].pc = pc]

\* SELECT name ... WHERE name = $1 and the return when the name is found.
PushSelect(c) ==
  /\ callers[c].pc = "select"
  /\ callers' = IF ScanName(DB, callers[c].m.Name, FALSE) = callers[c].m.Name
                THEN Returns(c, Nil)
                ELSE Goes(c, "begin")
  /\ UNCHANGED <<ledger, posSeq, schema, maxAssigned, pushOrder>>
  /\ ConcUnchanged

\* m.db.BeginTx(ctx, nil)
PushBegin(c) ==
  /\ callers[c].pc = "begin"
  /\ callers' = Goes(c, "insert")
  /\ UNCHANGED <<ledger, posSeq, schema, maxAssigned, pushOrder>>
  /\ ConcUnchanged

\* The INSERT: it waits while another open transaction holds a row of the
\* name; it draws a position; it fails on the UNIQUE name when a committed row
\* has the name, and Push returns that error after the deferred Rollback.
PushInsert(c) ==
  /\ callers[c].pc = "insert"
  /\ \A d \in Callers \ {c} :
       ~(HoldsRow(d) /\ callers[d].m.Name = callers[c].m.Name)
  /\ LET ins == InsertRow(DB, callers[c].m)
     IN /\ posSeq' = ins.db.seq
        /\ callers' = IF ins.ok
                      THEN [callers EXCEPT ![c].pc = "up", ![c].position = ins.db.seq]
                      ELSE Returns(c, DbErr)
  /\ UNCHANGED <<ledger, schema, maxAssigned, pushOrder>>
  /\ ConcUnchanged

\* tx.ExecContext(ctx, migration.Up): it waits while another open transaction
\* has created the object; it fails when the object is committed.
PushExecUp(c) ==
  /\ callers[c].pc = "up"
  /\ \A d \in Callers \ {c} :
       ~(HoldsObject(d) /\ callers[d].m.Up = callers[c].m.Up)
  /\ callers' = IF ExecStatement(schema, callers[c].m.Up).ok
                THEN Goes(c, "mark")
                ELSE Returns(c, DbErr)
  /\ UNCHANGED <<ledger, posSeq, schema, maxAssigned, pushOrder>>
  /\ ConcUnchanged

\* UPDATE ... SET migrated_at = NOW() WHERE name = $1, on the caller's own row.
PushMark(c) ==
  /\ callers[c].pc = "mark"
  /\ callers' = Goes(c, "commit")
  /\ UNCHANGED <<ledger, posSeq, schema, maxAssigned, pushOrder>>
  /\ ConcUnchanged

\* tx.Commit(): the row and the Up change become visible to every caller.
PushCommit(c) ==
  /\ callers[c].pc = "commit"
  /\ ledger' = ledger \cup {[name |-> callers[c].m.Name,
                             description |-> callers[c].m.Description,
                             up |-> callers[c].m.Up,
                             down |-> callers[c].m.Down,
                             position |-> callers[c].position,
                             migrated_at |-> TRUE]}
  /\ schema' = ExecStatement(schema, callers[c].m.Up).schema
  /\ callers' = [callers EXCEPT ![c].pc = "done", ![c].err = Nil,
                                ![c].committed = TRUE]
  /\ maxAssigned' = Max({maxAssigned, callers[c].position})
  /\ pushOrder' = Append(pushOrder, callers[c].m.Name)
  /\ UNCHANGED posSeq
  /\ ConcUnchanged

\* Both callers have entered Push with a valid migration and are about to
\* issue the existence query, on an initialized, empty ledger.
InitConcurrent ==
  /\ tableExists = TRUE
  /\ ledger = {}
  /\ posSeq = 0
  /\ schema = {}
  /\ last = [op |-> "New", migs |-> <<>>, target |-> "", cancel |-> "none",
             err |-> Nil, n |-> 0, log |-> <<>>, reverted |-> <<>>, out |-> <<>>]
  /\ maxAssigned = 0
  /\ orphans = {}
  /\ beforePush = NoSnapshot
  /\ pushOrder = <<>>
  /\ callers \in [Callers -> { [IdleCaller EXCEPT !.pc = "select", !.m = m]
                               : m \in ConcMigrations }]
  /\ loop = IdleLoop

NextConcurrent ==
  \E c \in Callers :
    \/ PushSelect(c)
    \/ PushBegin(c)
    \/ PushInsert(c)
    \/ PushExecUp(c)
    \/ PushMark(c)
    \/ PushCommit(c)

SpecConcurrent == InitConcurrent /\ [][NextConcurrent]_vars

\* ------------------------------------------------------ directory traversal
\* A directory is the sequence of its entries in the order ReadDir lists them
\* (sorted by file name).  An entry is a migration file, given by the keys
\* its configuration sets, or a subdirectory.
File(conf) == [dir |-> FALSE, conf |-> conf, entries |-> <<>>]
Dir(entries) == [dir |-> TRUE, conf |-> <<>>, entries |-> entries]

\* ReadInConfig on a path that is a directory.
ReadErr == "read error"

\* v.Unmarshal(&migration): a key the file does not set leaves the field at
\* its zero value, the empty string.
Get(conf, key) == IF key \in DOMAIN conf THEN conf[key] ELSE ""
Unmarshal(conf) ==
  [Name |-> Get(conf, "name"), Description |-> Get(conf, "description"),
   Up |-> Get(conf, "up"), Down |-> Get(conf, "down")]

FileA == File([name |-> "a", up |-> "CREATE x", down |-> "DROP x"])
FileB == File([name |-> "b", up |-> "CREATE y", down |-> "DROP y"])
FileC == File([name |-> "c", up |-> "CREATE z", down |-> "DROP z"])
FileBNoDown == File([name |-> "b", up |-> "CREATE y"])
FileCNoUp == File([name |-> "c", down |-> "DROP z"])

\* The directories handed to the traversals: one without subdirectories, one
\* with a subdirectory between two files, one whose subdirectory holds a file
\* that Push rejects, and one with a subdirectory inside a subdirectory.
TreeNames == {"flat", "nested", "rejected", "deep"}
Tree(t) ==
  CASE t = "flat"     -> <<FileA, FileB>>
    [] t = "nested"   -> <<FileA, Dir(<<FileB>>), FileC>>
    [] t = "rejected" -> <<Dir(<<FileB, FileCNoUp>>), FileA>>
    [] t = "deep"     -> <<Dir(<<Dir(<<FileA>>)>>), FileBNoDown>>

\* The migrations of the files under a directory, a subdirectory's files
\* before the later siblings of that subdirectory.
RECURSIVE Files(_)
Files(entries) ==
  IF Len(entries) = 0 THEN <<>>
  ELSE (IF Head(entries).dir
        THEN Files(Head(entries).entries)
        ELSE <<Unmarshal(Head(entries).conf)>>) \o Files(Tail(entries))

\* Migra.PushFile: the entry is read as a configuration file, which fails on
\* a directory, and its migration is pushed.
PushFileRun(db, e) ==
  IF e.dir THEN Ret(db, ReadErr, <<>>)
  ELSE PushRun(db, Unmarshal(e.conf), NoPushFault)

\* Migra.PushFileFS, called on files only.
PushFileFSRun(db, e) == PushRun(db, Unmarshal(e.conf), NoPushFault)

\* Migra.PushDir: PushFile on every entry of the directory, whatever the
\* entry is, until one returns an error.
RECURSIVE PushDirLoop(_, _, _)
PushDirLoop(db, entries, i) ==
  IF i > Len(entries) THEN Ret(db, Nil, <<>>)
  ELSE LET p == PushFileRun(db, entries[i])
       IN IF p.err # Nil THEN p
          ELSE PushDirLoop(p.db, entries, i + 1)

PushDirRun(db, entries) == PushDirLoop(db, entries, 1)

\* Migra.PushDirFS: PushDirFS on an entry that is a directory, PushFileFS on
\* any other, until one returns an error.
RECURSIVE PushDirFSLoop(_, _, _)
PushDirFSLoop(db, entries, i) ==
  IF i > Len(entries) THEN Ret(db, Nil, <<>>)
  ELSE LET p == IF entries[i].dir
                THEN PushDirFSLoop(db, entries[i].entries, 1)
                ELSE PushFileFSRun(db, entries[i])
       IN IF p.err # Nil THEN p
          ELSE PushDirFSLoop(p.db, entries, i + 1)

PushDirFSRun(db, entries) == PushDirFSLoop(db, entries, 1)

\* Migra.PushFS
PushFSRun(db, entries) == PushDirFSRun(db, entries)

PushDir ==
  \E t \in TreeNames :
    /\ PushDirRun(DB, Tree(t)).db.seq <= MaxPos
    /\ Install(PushDirRun(DB, Tree(t)), "PushDir", Files(Tree(t)), t)

PushDirFS ==
  \E t \in TreeNames :
    /\ PushDirFSRun(DB, Tree(t)).db.seq <= MaxPos
    /\ Install(PushDirFSRun(DB, Tree(t)), "PushDirFS", Files(Tree(t)), t)

PushFS ==
  \E t \in TreeNames :
    /\ PushFSRun(DB, Tree(t)).db.seq <= MaxPos
    /\ Install(PushFSRun(DB, Tree(t)), "PushFS", Files(Tree(t)), t)

\* One caller pushing directories on an initialized ledger, with Pop to take
\* migrations off again.
NextDir == PushDir \/ PushDirFS \/ PushFS \/ Pop

SpecDir == Init /\ [][NextDir]_vars

\* --------------------------------------------------------- concurrent Pops
\* Two callers, each running one Pop, interleaved statement by statement on a
\* healthy database whose ledger was filled by sequential Pushes.  Pop's
\* transaction is READ COMMITTED (db.Begin()): its SELECT takes no row lock
\* and sees the committed rows; a DROP of an object, or a DELETE of a row,
\* that another open transaction has written waits until that transaction
\* ends and then acts on what was committed.
PopMigrations ==
  { Mig("a", "CREATE x", "DROP x"),
    Mig("b", "CREATE y", ""),
    Mig("c", "CREATE z", "DROP z") }

\* The caller's transaction has executed a Down that drops an object and has
\* not yet ended.
HoldsDropped(c) ==
  /\ callers[c].pc \in {"delete", "pcommit"}
  /\ callers[c].m.Down # ""
\* The caller's transaction has deleted a row and not yet ended.
HoldsDeleted(c) == callers[c].pc = "pcommit" /\ callers[c].deleted = 1

\* The shared variables a statement of a concurrent Pop leaves alone.
PopUnchanged ==
  UNCHANGED <<tableExists, posSeq, last, maxAssigned, beforePush, loop>>

\* A sequential Push that fills the ledger before the two Pops are called.
PopFill ==
  \E m \in PopMigrations :
    /\ \A c \in Callers : callers[c].pc = "idle"
    /\ PushRun(DB, m, NoPushFault).db.seq <= MaxPos
    /\ Install(PushRun(DB, m, NoPushFault), "Push", <<m>>, "")

\* A caller enters Pop on a ledger that is not empty.
PopStart(c) ==
  /\ callers[c].pc = "idle"
  /\ ledger # {}
  /\ callers' = Goes(c, "pbegin")
  /\ UNCHANGED <<ledger, schema, orphans, pushOrder>>
  /\ PopUnchanged

\* m.db.Begin()
PopBegin(c) ==
  /\ callers[c].pc = "pbegin"
  /\ callers' = Goes(c, "pselect")
  /\ UNCHANGED <<ledger, schema, orphans, pushOrder>>
  /\ PopUnchanged

\* SELECT name, down ... ORDER BY position DESC and its Scan: the latest
\* committed row, or ErrNoMigration when there is none.
PopSelect(c) ==
  /\ callers[c].pc = "pselect"
  /\ callers' =
       IF PopScan(DB, FALSE).err # Nil
       THEN Returns(c, PopScan(DB, FALSE).err)
       ELSE LET r == SelectLatest(PopScan(DB, FALSE).rows)
            IN [callers EXCEPT ![c].pc = "down",
                               ![c].m = Mig(r.name, r.up, r.down),
                               ![c].position = r.position]
  /\ UNCHANGED <<ledger, schema, orphans, pushOrder>>
  /\ PopUnchanged

\* tx.Exec(down): it waits while another open transaction has dropped the
\* object; it fails when the drop is committed, and Pop returns that error
\* after the deferred Rollback.
PopExecDown(c) ==
  /\ callers[c].pc = "down"
  /\ \A d \in Callers \ {c} :
       ~(HoldsDropped(d) /\ callers[d].m.Down = callers[c].m.Down)
  /\ callers' = IF ExecStatement(schema, callers[c].m.Down).ok
                THEN [callers EXCEPT ![c].pc = "delete", ![c].ranDown = TRUE]
                ELSE Returns(c, DbErr)
  /\ UNCHANGED <<ledger, schema, orphans, pushOrder>>
  /\ PopUnchanged

\* DELETE ... WHERE name = $1: it waits while another open transaction has
\* deleted the row, and matches no row once that delete is committed; the
\* number of rows it matched is not looked at.
PopDelete(c) ==
  /\ callers[c].pc = "delete"
  /\ \A d \in Callers \ {c} :
       ~(HoldsDeleted(d) /\ callers[d].m.Name = callers[c].m.Name)
  /\ callers' = [callers EXCEPT
                   ![c].pc = "pcommit",
                   ![c].deleted =
                     Cardinality(ledger) -
                     Cardinality(DeleteByName(DB, callers[c].m.Name).rows)]
  /\ UNCHANGED <<ledger, schema, orphans, pushOrder>>
  /\ PopUnchanged

\* tx.Commit(): the delete and the Down change become visible to every caller.
PopCommit(c) ==
  /\ callers[c].pc = "pcommit"
  /\ ledger' = IF callers[c].deleted = 0 THEN ledger
                ELSE DeleteByName(DB, callers[c].m.Name).rows
  /\ schema' = ExecStatement(schema, callers[c].m.Down).schema
  /\ callers' = [callers EXCEPT ![c].pc = "done", ![c].err = Nil,
                                ![c].committed = TRUE]
  /\ orphans' = orphans \cup
                  { Creates(r.up) : r \in { q \in ledger \ ledger' : q.down = "" } }
  /\ pushOrder' = LET Stays(name) == name \in RowNames(ledger')
                  IN SelectSeq(pushOrder, Stays)
  /\ PopUnchanged

NextConcurrentPop ==
  \/ PopFill
  \/ \E c \in Callers :
       \/ PopStart(c)
       \/ PopBegin(c)
       \/ PopSelect(c)
       \/ PopExecDown(c)
       \/ PopDelete(c)
       \/ PopCommit(c)

SpecConcurrentPop == Init /\ [][NextConcurrentPop]_vars

\* ================================================================== claims
\* Reading the statement log of the last call.
LogHas(log, kind, status) ==
  \E i \in 1..Len(log) : log[i][1] = kind /\ log[i][3] = status
NoFailure(log) == \A i \in 1..Len(log) : log[i][3] = "ok"
Committed(log) == LogHas(log, "commit", "ok")

\* C1 (as stated): in every committed state a schema change is in effect if
\* and only if the ledger holds the row of the migration that made it.
C1_LedgerMatchesSchema == schema = RowChanges(ledger)

\* C1 (amended): every ledger row's Up change is in effect, and every change
\* in effect belongs to exactly one ledger row or was left behind by a Pop of
\* a migration whose Down statement is empty.
C1_LedgerMatchesSchemaButOrphans ==
  /\ schema = RowChanges(ledger) \cup orphans
  /\ RowChanges(ledger) \cap orphans = {}
  /\ Cardinality(RowChanges(ledger)) = Cardinality(ledger)

\* C1 witness: a call failed at the database after rows were committed and a
\* migration with an empty Down was popped.
C1_Witness ==
  /\ last.err = DbErr
  /\ LogHas(last.log, "exec", "failed")
  /\ ledger # {}
  /\ orphans # {}

C3_PushFailureLeavesNoRow ==
  [][ (/\ last'.op = "Push"
       /\ \/ LogHas(last'.log, "insert", "failed")
          \/ LogHas(last'.log, "exec", "failed")
          \/ LogHas(last'.log, "mark", "failed")
          \/ LogHas(last'.log, "commit", "failed"))
      => (/\ last'.err # Nil
          /\ last'.migs[1].Name \notin RowNames(ledger')
          /\ schema' = schema
          /\ ledger' = ledger) ]_vars

\* C4: a successful Pop executes the Down of, and deletes, exactly the row
\* with the greatest position among the rows present.
C4_PopTakesGreatestPosition ==
  [][ (last'.op = "Pop" /\ last'.err = Nil)
      => \E r \in ledger :
           /\ \A s \in ledger : s.position <= r.position
           /\ ledger' = ledger \ {r}
           /\ last'.reverted = <<r.name>>
           /\ last'.log[3] = <<"exec", r.down, "ok">>
           /\ last'.log[4] = <<"delete", r.name, "ok">> ]_vars

\* C4 witness: a Pop succeeded on a ledger of three rows.
C4_Witness ==
  /\ last.op = "Pop" /\ last.err = Nil
  /\ Cardinality(ledger) = 2

\* C5: every committed ledger row has migrated_at set.
C5_RowsAreMigrated == \A r \in ledger : r.migrated_at

\* C5 witness: rows are committed and the last Push failed at its mark or
\* its commit, after the row was inserted.
C5_Witness ==
  /\ last.op = "Push" /\ last.err = DbErr
  /\ LogHas(last.log, "mark", "failed") \/ LogHas(last.log, "commit", "failed")
  /\ ledger # {}

\* C6: a row a call adds has a position greater than every position a
\* committed row has held before, also of rows deleted since; the rows present
\* have pairwise distinct positions; rows added by one PushMany are positioned
\* in the order in which the slice first names them.
C6_PositionsNeverReused ==
  [][ /\ \A r \in ledger' \ ledger : r.position > maxAssigned
      /\ \A r \in ledger' \ ledger : \A s \in ledger : r.position > s.position
      /\ \A r, s \in ledger' : r.position = s.position => r = s
      /\ \A i, j \in 1..Len(last'.migs) :
           \A r, s \in ledger' \ ledger :
             (/\ i < j
              /\ r.name = last'.migs[i].Name /\ s.name = last'.migs[j].Name
              /\ \A k \in 1..(j - 1) : last'.migs[k].Name # s.name)
             => r.position < s.position ]_vars

\* C6 witness: a Push committed a row on a ledger that is empty again after
\* a Pop, with a position above the one the deleted row held.
C6_Witness ==
  /\ last.op = "Push" /\ last.err = Nil
  /\ Cardinality(ledger) = 1
  /\ \E r \in ledger : r.position > 1 /\ maxAssigned = r.position
  /\ Committed(last.log)

\* C7: Pop returns ErrNoMigration exactly when its fetch was answered and the
\* ledger is empty, and then it has issued no statement after the fetch and
\* changed nothing.
C7_PopOnEmpty ==
  [][ last'.op = "Pop"
      => /\ (last'.err = ErrNoMigration)
             <=> (ledger = {} /\ LogHas(last'.log, "select", "ok"))
         /\ last'.err = ErrNoMigration
             => /\ last'.log = << <<"begin", "", "ok">>, <<"select", "", "ok">> >>
                /\ ledger' = ledger /\ schema' = schema /\ posSeq' = posSeq ]_vars

\* C7 witness: a Pop returned ErrNoMigration after rows had been pushed and
\* popped.
C7_Witness ==
  /\ last.op = "Pop" /\ last.err = ErrNoMigration
  /\ posSeq > 0

\* C8: when the Down statement, the delete or the commit of a Pop fails, Pop
\* returns an error and rows and schema are as before the call.
C8_PopFailureChangesNothing ==
  [][ (/\ last'.op = "Pop"
       /\ \/ LogHas(last'.log, "exec", "failed")
          \/ LogHas(last'.log, "delete", "failed")
          \/ LogHas(last'.log, "commit", "failed"))
      => (/\ last'.err # Nil
          /\ ledger # {}
          /\ ledger' = ledger
          /\ schema' = schema
          /\ RowChanges(ledger) \subseteq schema') ]_vars

\* C8 witness: a Pop failed at its delete or its commit, after the Down
\* statement had run.
C8_Witness ==
  /\ last.op = "Pop" /\ last.err = DbErr
  /\ LogHas(last.log, "exec", "ok")
  /\ ledger # {}

\* C9 (as stated): after a Push that committed a new name and a successful
\* Pop right after it, rows and schema are those before the Push.
C9_PushPopRoundTrip ==
  (last.op = "Pop" /\ last.err = Nil /\ beforePush.set)
  => (ledger = beforePush.rows /\ schema = beforePush.schema)

\* C9 (amended): the same for a migration whose Down statement is not empty;
\* with an empty Down the rows are restored and the Up change stays.
C9_PushPopRoundTripWithDown ==
  (last.op = "Pop" /\ last.err = Nil /\ beforePush.set)
  => /\ ledger = beforePush.rows
     /\ beforePush.down # "" => schema = beforePush.schema
     /\ beforePush.down = "" => beforePush.schema \subseteq schema
     /\ posSeq > Cardinality(ledger)

\* C9 witness: such a Push and Pop happened on a ledger that held rows.
C9_Witness ==
  /\ last.op = "Pop" /\ last.err = Nil /\ beforePush.set
  /\ beforePush.down # ""
  /\ ledger # {}

\* C10: PopAll on k >= 1 rows, with no statement failing, returns k and nil,
\* empties the ledger and reverts the rows in descending position order.
C10_PopAllRevertsAll ==
  [][ (last'.op = "PopAll" /\ ledger # {} /\ NoFailure(last'.log))
      => (/\ last'.err = Nil
          /\ last'.n = Cardinality(ledger)
          /\ ledger' = {}
          /\ Len(last'.reverted) = Cardinality(ledger)
          /\ \A i \in 1..Len(last'.reverted) :
               \E r \in ledger :
                 /\ r.name = last'.reverted[i]
                 /\ Cardinality({ s \in ledger : s.position > r.position }) = i - 1) ]_vars

\* C10 witness: PopAll returned 3 and nil.
C10_Witness ==
  /\ last.op = "PopAll" /\ last.err = Nil
  /\ last.n = 3 /\ Len(last.reverted) = 3
  /\ ledger = {}

\* A Pop that ended at its fetch with no statement failing: it met
\* ErrNoMigration.
MetNoMigration(log) ==
  log = << <<"begin", "", "ok">>, <<"select", "", "ok">> >>

C12_PopAllOnFreshLedger ==
  [][ (/\ last'.op = "PopAll"
       /\ tableExists /\ ledger = {} /\ posSeq = 0
       /\ NoFailure(last'.log))
      => last'.err = Nil ]_vars

\* C13: when the ledger holds a row of the name PopUntil is called with and
\* no statement of the call fails, PopUntil returns nil, has reverted exactly
\* the rows positioned above that row, in descending position order, and
\* leaves that row and the rows below it in the ledger with their Up changes
\* in effect; when that row is the latest, nothing is popped.
C13_PopUntilConverges ==
  [][ (/\ last'.op = "PopUntil"
       /\ last'.target \in RowNames(ledger)
       /\ NoFailure(last'.log))
      => \E t \in ledger :
           /\ t.name = last'.target
           /\ last'.err = Nil
           /\ ledger' = { r \in ledger : r.position <= t.position }
           /\ Len(last'.reverted) = Cardinality(ledger \ ledger')
           /\ \A i \in 1..Len(last'.reverted) :
                \E r \in ledger :
                  /\ r.name = last'.reverted[i]
                  /\ r.position > t.position
                  /\ Cardinality({ s \in ledger : s.position > r.position }) = i - 1
           /\ RowChanges(ledger') \subseteq schema'
           /\ (\A s \in ledger : s.position <= t.position)
                => (last'.reverted = <<>> /\ ledger' = ledger /\ schema' = schema) ]_vars

\* C13 witness: PopUntil reverted two rows and stopped at the named one.
C13_Witness ==
  /\ last.op = "PopUntil" /\ last.err = Nil
  /\ Len(last.reverted) = 2
  /\ last.target \in RowNames(ledger)

\* C14: PopUntil called with a name the ledger does not hold, with no
\* statement of the call failing, returns ErrNoMigration.
C14_PopUntilUnknownName ==
  [][ (/\ last'.op = "PopUntil"
       /\ tableExists
       /\ last'.target \notin RowNames(ledger)
       /\ NoFailure(last'.log))
      => last'.err = ErrNoMigration ]_vars

\* C15: Latest, its query answered, returns the row with the greatest
\* position when the ledger holds rows and ErrNoMigration when it is empty.
C15_LatestOrNoMigration ==
  [][ (last'.op = "Latest" /\ tableExists /\ NoFailure(last'.log))
      => /\ ledger # {}
              => /\ last'.err = Nil
                 /\ \E r \in ledger :
                      /\ \A s \in ledger : s.position <= r.position
                      /\ last'.out = <<r.name>>
         /\ ledger = {} => last'.err = ErrNoMigration ]_vars

\* C16: a Push of a migration with an empty Name or an empty Up returns the
\* validation error having issued no statement and opened no transaction;
\* table, rows, sequence and schema are unchanged, whether the migration
\* table exists or not.
C16_ValidationRejection ==
  [][ (/\ last'.op = "Push"
       /\ last'.migs[1].Name = "" \/ last'.migs[1].Up = "")
      => (/\ last'.err \in {ErrNameRequired, ErrUpRequired}
          /\ last'.log = <<>>
          /\ tableExists' = tableExists
          /\ ledger' = ledger /\ posSeq' = posSeq /\ schema' = schema) ]_vars

\* C16 witness: a Push was rejected by validation while the migration table
\* did not exist, after migrations had been applied and the table dropped.
C16_Witness ==
  /\ last.op = "Push"
  /\ last.err \in {ErrNameRequired, ErrUpRequired}
  /\ ~tableExists /\ schema # {}

\* C17: PushMany pushes in slice order and stops at the first Push that
\* fails: it returns the error of that Push, the migrations before it have
\* their rows, with the new rows positioned in slice order and their Up
\* changes in effect, the rows present before the call stay, and no row and
\* no Up change comes from the failed migration or from one after it.
C17_PushManyFailFast ==
  [][ last'.op = "PushMany"
      => LET ms     == last'.migs
             k      == last'.n
             before == { ms[j].Name : j \in 1..k }
             new    == ledger' \ ledger
         IN /\ last'.err = Nil <=> k = Len(ms)
            /\ last'.err # Nil
                 => /\ k < Len(ms)
                    /\ IF ms[k + 1].Name = "" THEN last'.err = ErrNameRequired
                       ELSE IF ms[k + 1].Up = "" THEN last'.err = ErrUpRequired
                       ELSE /\ last'.err = DbErr
                            /\ last'.log[1][2] = ms[k + 1].Name
                            /\ ~NoFailure(last'.log)
            /\ before \subseteq RowNames(ledger')
            /\ ledger \subseteq ledger'
            /\ RowNames(new) \subseteq before
            /\ schema' = schema \cup RowChanges(new)
            /\ \A r, s \in new :
                 (\E i \in 1..k : /\ ms[i].Name = r.name
                                  /\ \A j \in 1..i : ms[j].Name # s.name)
                 => r.position < s.position ]_vars

\* C17 witness: a PushMany of two migrations committed the first and failed
\* at the second, which has no row.
C17_Witness ==
  /\ last.op = "PushMany" /\ last.err # Nil
  /\ Len(last.migs) = 2 /\ last.n = 1
  /\ last.migs[1].Name \in RowNames(ledger)
  /\ last.migs[2].Name \notin RowNames(ledger)
  /\ Cardinality(ledger) = 2

\* C18: List, with its query and its iteration not failing, returns nil and
\* every ledger row exactly once in ascending position order, which is the
\* order in which the Pushes of the rows present committed; it changes
\* nothing.
C18_ListAscending ==
  [][ (last'.op = "List" /\ tableExists /\ NoFailure(last'.log))
      => (/\ last'.err = Nil
          /\ Len(last'.out) = Cardinality(ledger)
          /\ \A i \in 1..Len(last'.out) :
               \E r \in ledger :
                 /\ r.name = last'.out[i]
                 /\ Cardinality({ s \in ledger : s.position < r.position }) = i - 1
          /\ \A i, j \in 1..Len(last'.out) : last'.out[i] = last'.out[j] => i = j
          /\ last'.out = pushOrder
          /\ ledger' = ledger /\ schema' = schema /\ posSeq' = posSeq) ]_vars

\* C18 witness: List returned three rows, pushed on a ledger that had been
\* emptied or not.
C18_Witness ==
  /\ last.op = "List" /\ last.err = Nil
  /\ NoFailure(last.log)
  /\ Len(last.out) = 3

\* C19: when two concurrent Pushes of the same Name, started on a ledger that
\* lacks it, have both returned, both returned nil, the ledger has exactly one
\* row of that Name and exactly one of the two committed its Up.
C19_ConcurrentSameName ==
  (/\ \A c \in Callers : callers[c].pc = "done"
   /\ callers[1].m.Name = callers[2].m.Name)
  => (/\ \A c \in Callers : callers[c].err = Nil
      /\ Cardinality({ r \in ledger : r.name = callers[1].m.Name }) = 1
      /\ Cardinality({ c \in Callers : callers[c].committed }) = 1)

\* C20: when the context of a Push or a Pop is cancelled at a step of the
\* call up to its commit, the call returns an error and the ledger rows and
\* the schema are those before the call.
C20_CancelLeavesNothing ==
  [][ (last'.op \in {"Push", "Pop"} /\ last'.cancel # "none")
      => (/\ last'.err # Nil
          /\ ledger' = ledger
          /\ schema' = schema) ]_vars

\* C21: whenever a database step of a Push, a Pop, a List or a Latest fails,
\* the call returns an error.
C21_NoErrorSwallowed ==
  [][ (/\ last'.op \in {"Push", "Pop", "List", "Latest"}
       /\ ~NoFailure(last'.log))
      => last'.err # Nil ]_vars

\* C22: when the Up statement of a Push fails, the error Push returns
\* carries the migration's Name and the database error; written here as the
\* Name, a colon and the database error.
C22_UpErrorCarriesName ==
  [][ (last'.op = "Push" /\ LogHas(last'.log, "exec", "failed"))
      => last'.err = last'.migs[1].Name \o ": " \o DbErr ]_vars

\* C23: CreateMigrationTable on an initialized ledger, its statements not
\* failing, returns nil and leaves the table, every row and the position
\* sequence as they were.
C23_CreateIsIdempotent ==
  [][ (/\ last'.op = "CreateMigrationTable"
       /\ tableExists
       /\ NoFailure(last'.log))
      => (/\ last'.err = Nil
          /\ tableExists'
          /\ ledger' = ledger
          /\ posSeq' = posSeq
          /\ schema' = schema) ]_vars

\* C23 witness: CreateMigrationTable returned nil on a ledger that holds a
\* row and whose sequence has moved past it.
C23_Witness ==
  /\ last.op = "CreateMigrationTable" /\ last.err = Nil
  /\ ledger # {}
  /\ posSeq > Cardinality(ledger)

\* C24: DropMigrationTable returns an error, and changes nothing, when the
\* migration table does not exist: before any CreateMigrationTable and after
\* a DropMigrationTable that succeeded.
C24_DropFailsWithoutTable ==
  [][ (last'.op = "DropMigrationTable" /\ ~tableExists)
      => (/\ last'.err # Nil
          /\ ~tableExists'
          /\ ledger' = ledger /\ posSeq' = posSeq /\ schema' = schema) ]_vars

\* C24 witness: a DropMigrationTable failed on a database whose migration
\* table had been created, used and dropped.
C24_Witness ==
  /\ last.op = "DropMigrationTable" /\ last.err # Nil
  /\ ~tableExists
  /\ schema # {}

\* C25: in every interleaving of two concurrent Pushes of different names,
\* the positions their inserts draw are distinct and distinct from those of
\* the committed rows of other names; once both have committed, the ledger
\* holds both rows.
C25_ConcurrentPositionsDistinct ==
  callers[1].m.Name # callers[2].m.Name
  => /\ (callers[1].position > 0 /\ callers[2].position > 0)
          => callers[1].position # callers[2].position
     /\ \A c \in Callers : \A r \in ledger :
          (callers[c].position = r.position) => r.name = callers[c].m.Name
     /\ \A r, s \in ledger : r.position = s.position => r = s
     /\ (\A c \in Callers : callers[c].committed)
          => /\ Cardinality(ledger) = 2
             /\ \A c \in Callers :
                  \E r \in ledger : /\ r.name = callers[c].m.Name
                                    /\ r.position = callers[c].position
                                    /\ r.up = callers[c].m.Up

\* C25 witness: both callers committed rows of different names, and the one
\* that drew the greater position committed first, so the transactions
\* overlapped.
C25_Witness ==
  /\ \A c \in Callers : callers[c].committed
  /\ callers[1].m.Name # callers[2].m.Name
  /\ Cardinality(ledger) = 2
  /\ \E r \in ledger : r.position = 2 /\ pushOrder[1] = r.name

\* An entry of the given kind and outcome stands before entry i of the log.
Before(log, i, kind, status) ==
  \E j \in 1..(i - 1) : log[j][1] = kind /\ log[j][3] = status

\* C26: in the statements a Push issues, the Up statement comes only after
\* the insert succeeded, the mark-migrated update only after the Up
\* succeeded and the commit only after the update succeeded, so after a
\* failed insert no Up is executed; in those of a Pop, the delete comes only
\* after the Down statement succeeded, so after a failed Down no delete is
\* issued.
C26_StepOrdering ==
  [][ /\ last'.op = "Push"
           => /\ \A i \in 1..Len(last'.log) :
                   /\ last'.log[i][1] = "exec"
                        => Before(last'.log, i, "insert", "ok")
                   /\ last'.log[i][1] = "mark"
                        => Before(last'.log, i, "exec", "ok")
                   /\ last'.log[i][1] = "commit"
                        => Before(last'.log, i, "mark", "ok")
              /\ LogHas(last'.log, "insert", "failed")
                   => \A i \in 1..Len(last'.log) : last'.log[i][1] # "exec"
      /\ last'.op = "Pop"
           => /\ \A i \in 1..Len(last'.log) :
                   /\ last'.log[i][1] = "delete"
                        => Before(last'.log, i, "exec", "ok")
                   /\ last'.log[i][1] = "commit"
                        => Before(last'.log, i, "delete", "ok")
              /\ LogHas(last'.log, "exec", "failed")
                   => \A i \in 1..Len(last'.log) : last'.log[i][1] # "delete" ]_vars

\* C26 witness: the insert of a Push failed on a ledger that holds rows, and
\* the Push returned without executing its Up.
C26_Witness ==
  /\ last.op = "Push" /\ last.err = DbErr
  /\ LogHas(last.log, "insert", "failed")
  /\ ~LogHas(last.log, "exec", "ok")
  /\ ledger # {}

\* C27: an iteration of PopAll or PopUntil that does not return has committed
\* a Pop and left the ledger with fewer rows than before, and every PopAll
\* and PopUntil that a single caller has entered returns, whatever the ledger
\* and the name.
C27_LoopsTerminate ==
  /\ [][ (loop.pc # "idle" /\ loop'.pc # "idle")
         => (/\ Cardinality(ledger') < Cardinality(ledger)
             /\ loop'.pc = loop.pc /\ loop'.n = loop.n + 1) ]_vars
  /\ (loop.pc # "idle") ~> (loop.pc = "idle")

\* C27 witness: a PopUntil with a name no row has returned after three
\* iterations that popped a row each.
C27_Witness ==
  /\ loop.pc = "idle"
  /\ last.op = "PopUntil" /\ last.target = "none"
  /\ Len(last.reverted) = 3
  /\ ledger = {}

\* C28 (as stated): a PopUntil with a name no row has, none of its statements
\* failing, returns an error with the ledger empty and no schema change left
\* in effect.
C28_PopUntilUnknownRevertsAll ==
  [][ (/\ last'.op = "PopUntil"
       /\ tableExists
       /\ last'.target \notin RowNames(ledger)
       /\ NoFailure(last'.log))
      => (/\ last'.err # Nil
          /\ ledger' = {}
          /\ schema' = {}) ]_vars

\* C28 (amended): such a PopUntil returns an error having reverted every row,
\* greatest position first; the ledger is empty, and the schema changes left
\* in effect are those of migrations whose Down statement is empty, popped by
\* this call or before it.
C28_PopUntilUnknownRevertsAllWithDown ==
  [][ (/\ last'.op = "PopUntil"
       /\ tableExists
       /\ last'.target \notin RowNames(ledger)
       /\ NoFailure(last'.log))
      => (/\ last'.err # Nil
          /\ ledger' = {}
          /\ Len(last'.reverted) = Cardinality(ledger)
          /\ \A i \in 1..Len(last'.reverted) :
               \E r \in ledger :
                 /\ r.name = last'.reverted[i]
                 /\ Cardinality({ s \in ledger : s.position > r.position }) = i - 1
          /\ schema' = orphans \cup RowChanges({ r \in ledger : r.down = "" })
          /\ schema' = orphans') ]_vars

\* C28 witness: a PopUntil with a name no row has reverted two rows, one of
\* them with an empty Down statement, and returned its error.
C28_Witness ==
  /\ last.op = "PopUntil" /\ last.err # Nil
  /\ NoFailure(last.log)
  /\ Len(last.reverted) = 2
  /\ ledger = {}
  /\ schema # {}

\* C29: when the Down statement of a row fails in a PopAll, PopAll returns
\* that error, not ErrNoMigration, and the number n of rows popped before it;
\* those n rows, the ones with the greatest positions, are gone with their
\* Down statements executed, and the failing row and the rows below it are in
\* the ledger with their Up changes in effect.
C29_PartialPopAll ==
  [][ (last'.op = "PopAll" /\ LogHas(last'.log, "exec", "failed"))
      => (/\ last'.err = DbErr
          /\ last'.n = Len(last'.reverted)
          /\ last'.n = Cardinality(ledger \ ledger')
          /\ ledger' \subseteq ledger
          /\ ledger' # {}
          /\ \A r \in ledger \ ledger' : \A s \in ledger' : s.position < r.position
          /\ \A i \in 1..Len(last'.reverted) :
               \E r \in ledger \ ledger' :
                 /\ r.name = last'.reverted[i]
                 /\ Cardinality({ s \in ledger : s.position > r.position }) = i - 1
          /\ LET failing == SelectLatest(ledger')
             IN last'.log[Len(last'.log)] = <<"exec", failing.down, "failed">>
          /\ RowChanges(ledger') \subseteq schema'
          /\ \A r \in ledger \ ledger' : r.down # "" => Creates(r.up) \notin schema') ]_vars

\* C29 witness: a PopAll popped two rows, failed at the Down statement of the
\* third and returned 2 with the database error.
C29_Witness ==
  /\ last.op = "PopAll" /\ last.err = DbErr
  /\ LogHas(last.log, "exec", "failed")
  /\ last.n = 2
  /\ Cardinality(ledger) = 1

\* C30: a List and a Latest leave the migration table, every row, the
\* position sequence and the schema as they were, whether they return rows or
\* an error.
C30_ReadOnly ==
  [][ last'.op \in {"List", "Latest"}
      => (/\ tableExists' = tableExists
          /\ ledger' = ledger
          /\ posSeq' = posSeq
          /\ schema' = schema) ]_vars

\* C30 witness: a List returned the first of three rows and the error of the
\* Scan of the second.
C30_Witness ==
  /\ last.op = "List" /\ last.err = DbErr
  /\ Len(last.out) = 1
  /\ Cardinality(ledger) = 3

\* C31: a Push of a valid migration whose Name is in the ledger while its Up
\* or its Down differs from the stored row's, the existence query answered,
\* returns nil without executing the new Up; every row, with its stored Up,
\* Down, description, position and migrated_at, the schema and the position
\* sequence are unchanged.
C31_IdempotenceKeyedOnName ==
  [][ (/\ last'.op = "Push"
       /\ last'.migs[1].Name # "" /\ last'.migs[1].Up # ""
       /\ last'.log[1] = <<"select", last'.migs[1].Name, "ok">>
       /\ \E r \in ledger :
            /\ r.name = last'.migs[1].Name
            /\ r.up # last'.migs[1].Up \/ r.down # last'.migs[1].Down)
      => (/\ last'.err = Nil
          /\ ~LogHas(last'.log, "exec", "ok")
          /\ ~LogHas(last'.log, "exec", "failed")
          /\ ledger' = ledger
          /\ schema' = schema
          /\ posSeq' = posSeq) ]_vars

\* C31 witness: a Push of name a with another Up than the stored row's
\* returned nil, and the object of the new Up is not in the schema.
C31_Witness ==
  /\ last.op = "Push" /\ last.err = Nil
  /\ Len(last.log) = 1
  /\ \E r \in ledger :
       /\ r.name = last.migs[1].Name
       /\ r.up # last.migs[1].Up
       /\ Creates(last.migs[1].Up) \notin schema

\* C33: while the migration table does not exist (before
\* CreateMigrationTable, or after DropMigrationTable), a Push of a valid
\* migration, a Pop and a PopAll return an error that is not ErrNoMigration,
\* and the table, the rows, the position sequence and the schema are
\* unchanged; PopAll returns the count 0 with that error.
C33_AbsentTableFails ==
  [][ (/\ ~tableExists
       /\ \/ /\ last'.op = "Push"
             /\ last'.migs[1].Name # "" /\ last'.migs[1].Up # ""
          \/ last'.op \in {"Pop", "PopAll"})
      => (/\ last'.err \notin {Nil, ErrNoMigration}
          /\ tableExists' = tableExists
          /\ ledger' = ledger
          /\ posSeq' = posSeq
          /\ schema' = schema
          /\ last'.op = "PopAll" => last'.n = 0) ]_vars

\* C33 witness: PopAll returned (0, error) on a database whose migration
\* table was dropped after a Push: the schema still holds the pushed change,
\* the position sequence went with the table.
C33_Witness ==
  /\ ~tableExists
  /\ last.op = "PopAll" /\ last.err = DbErr /\ last.n = 0
  /\ last.log = << <<"begin", "", "ok">>, <<"select", "", "failed">> >>
  /\ schema # {}
  /\ posSeq = 0

\* C34: DropMigrationTable executes no Down. A successful Drop issues the one
\* DROP TABLE statement: the schema keeps every change of the applied
\* migrations while the table and its rows are gone. A later Push of a valid
\* migration whose name the ledger does not hold, its change still in effect,
\* executes its Up again once its INSERT succeeded.
C34_DropKeepsSchema ==
  [][ /\ (last'.op = "DropMigrationTable" /\ last'.err = Nil)
         => (/\ schema' = schema
             /\ ledger' = {} /\ ~tableExists'
             /\ last'.log = << <<"drop", "", "ok">> >>)
      /\ (/\ last'.op = "Push"
          /\ tableExists
          /\ last'.migs[1].Name # "" /\ last'.migs[1].Up # ""
          /\ last'.migs[1].Name \notin RowNames(ledger)
          /\ Creates(last'.migs[1].Up) \in schema
          /\ LogHas(last'.log, "insert", "ok"))
         => \E i \in 1..Len(last'.log) :
              /\ last'.log[i][1] = "exec"
              /\ last'.log[i][2] = last'.migs[1].Up
              /\ Before(last'.log, i, "insert", "ok") ]_vars

\* C34 witness: the Up of a is executed on a new, empty table while its
\* object is in the schema; no Pop left the object behind, so its row went
\* with a dropped table.
C34_Witness ==
  /\ tableExists /\ ledger = {} /\ orphans = {}
  /\ last.op = "Push" /\ last.migs[1].Name = "a"
  /\ Creates(last.migs[1].Up) \in schema
  /\ LogHas(last.log, "insert", "ok")
  /\ \E i \in 1..Len(last.log) :
       last.log[i][1] = "exec" /\ last.log[i][2] = last.migs[1].Up

\* C32 (as stated): in every interleaving of the statements of two concurrent
\* Pops on a ledger that is not empty, no migration's Down statement is
\* executed by both calls, and every Pop that returned nil has deleted
\* exactly one row.
C32_ConcurrentPopsDisjoint ==
  /\ \A c \in Callers : \A d \in Callers \ {c} :
       ~(/\ callers[c].ranDown /\ callers[d].ranDown
         /\ callers[c].m.Name = callers[d].m.Name)
  /\ \A c \in Callers :
       (callers[c].pc = "done" /\ callers[c].committed)
       => callers[c].deleted = 1

\* C32 (amended): both Pops may select the same latest row.  A Down that
\* fails once its change is reverted is executed with success by at most one
\* of them; only a Down that succeeds whatever the schema (the empty one) is
\* executed by both, and then the second Pop deletes no row and returns nil
\* all the same.  No row is deleted by both calls and a Pop that returned nil
\* has deleted at most one row.
C32_ConcurrentPopsAtMostOnce ==
  /\ \A c \in Callers : \A d \in Callers \ {c} :
       /\ (/\ callers[c].ranDown /\ callers[d].ranDown
           /\ callers[c].m.Name = callers[d].m.Name)
          => callers[c].m.Down = ""
       /\ ~(/\ callers[c].deleted = 1 /\ callers[d].deleted = 1
            /\ callers[c].m.Name = callers[d].m.Name)
  /\ \A c \in Callers :
       (callers[c].pc = "done" /\ callers[c].committed)
       => /\ callers[c].deleted \in {0, 1}
          /\ callers[c].deleted = 0
             => /\ callers[c].m.Down = ""
                /\ \E d \in Callers \ {c} :
                     /\ callers[d].committed
                     /\ callers[d].deleted = 1
                     /\ callers[d].m.Name = callers[c].m.Name

\* C32 witness: both Pops selected row b, whose Down is empty, both executed
\* it and both returned nil; one of them deleted the row, the other none, and
\* the row below b is still in the ledger.
C32_Witness ==
  /\ \A c \in Callers :
       /\ callers[c].pc = "done" /\ callers[c].committed
       /\ callers[c].ranDown
       /\ callers[c].m.Name = "b"
  /\ callers[1].deleted = 1 /\ callers[2].deleted = 0
  /\ ledger # {}

\* C35 (as stated): PushDir, PushDirFS and PushFS push every file found under
\* the directory, descending into nested directories, in listing order with a
\* subdirectory's files before the later siblings of the subdirectory, and
\* stop at the first error with the files pushed before it applied: the call
\* leaves the database as pushing the files of that listing one after the
\* other, up to the first Push that fails, leaves it, and returns nil exactly
\* when no Push failed.
C35_TraversalIsRecursive ==
  [][ last'.op \in {"PushDir", "PushDirFS", "PushFS"}
      => LET files == Files(Tree(last'.target))
             expected == PushManyLoop(DB, files, 1,
                                      [at |-> 0, fault |-> NoPushFault], <<>>)
         IN /\ (last'.err = Nil) <=> (expected.err = Nil)
            /\ ledger' = expected.db.rows
            /\ schema' = expected.db.schema
            /\ posSeq' = expected.db.seq ]_vars

====
